---- MODULE Spec2Model ----
(***************************************************************************)
(* Authentication and session lifecycle of the NestJS board backend:       *)
(* AuthService (register, login, oauthLogin, refresh, logout, e-mail       *)
(* verification, password reset), JwtStrategy.validate (the enforcer),     *)
(* ReportsService.banUser and TokenCleanupService.cleanupExpiredTokens.    *)
(*                                                                         *)
(* Time is counted in ticks.  One tick is one second of the JWT clock: a   *)
(* JWT's iat is the tick it was signed in, and two JWTs signed for the     *)
(* same account in the same tick are the same string (the payload          *)
(* {sub, email, role, iat, exp} and the HMAC are deterministic; there is   *)
(* no jti).  The durations of the source are scaled down to a few ticks,   *)
(* so that every expiry falls within the modelled time.  Every handler is  *)
(* cut at its awaits: one action per database round trip, so that other    *)
(* requests may run in between.                                            *)
(***************************************************************************)
EXTENDS Integers, Sequences, FiniteSets, TLC

\* ---------------------------------------------------------------- bounds
MaxTime == 2        \* the clock stops here
MaxBans == 1        \* bans per account
MaxResetTokens == 2 \* password reset tokens ever issued
MaxLog == 2         \* outcomes remembered per refresh token
MaxVerifyCalls == 6 \* well-formed VerifyCode calls ever made
MaxOAuthCodes == 3  \* OAuth exchange codes ever generated

\* ------------------------------------------------- constants of the source
\* durations, scaled to ticks
REFRESH_TOKEN_EXPIRY_DAYS == 1         \* 7 days in the source
PASSWORD_RESET_EXPIRY_HOURS == 1       \* 1 hour in the source
EMAIL_VERIFICATION_EXPIRY_MINUTES == 1 \* 10 minutes in the source
DefaultExpiresIn == 1                  \* jwt.expiresIn, default '15m'
LongExpiresIn == 2                     \* a configured JWT_EXPIRES_IN above 15m
BanBlacklistMinutes == 1               \* banUser: 15 * 60 * 1000 ms, as the default
BanDays == 2                           \* USER_BAN_1DAY: longer than the blacklist entry
PasswordChangeBlacklistMinutes == 1    \* changePassword: 15 * 60 * 1000 ms
FallbackExpiryMinutes == 1             \* calculateAccessTokenExpiry: 15, no [mhd] unit
OAUTH_CODE_EXPIRY_SECONDS == 1         \* 60 seconds in the source
\* counts, as in the source
DefaultMaxAttempts == 5                \* verification attempts allowed per code
MAX_OAUTH_CODES == 2                   \* 1000 in the source
Null == -1                             \* a null column / undefined

Procs == {"p1", "p2"}
UserIds == {"u1"}                      \* an account's id stands for its e-mail
Passwords == {"pw1", "pw2"}
Codes == {"c1", "c2", "c3"}            \* six-digit codes the generator may draw
Malformed == "12a"                     \* an input that is not six digits
ExpiresInValues == {DefaultExpiresIn, LongExpiresIn}
ExpiresInUnits == {"m", "s"}           \* '15m', '30m'; '900s', '1800s'
BanActions == {"USER_BAN_1DAY", "USER_BAN_PERMANENT"}

\* ------------------------------------------------------------ pure helpers
\* crypto.createHash('sha256').update(token).digest('hex'): injective here
hashToken(token) == <<"sha256", token>>

\* bcrypt.hash / bcrypt.compare
hashPassword(password) == <<"bcrypt", password>>
comparePassword(plain, hashed) == hashed = hashPassword(plain)
dummyHash == <<"bcrypt", "dummy">>
NoPassword == <<"null">>                \* password: null (OAuth account)

\* jwtService.signAsync(payload, {secret: jwt.refreshSecret, expiresIn: '7d'})
SignRefresh(userId, t) == [typ |-> "refresh", sub |-> userId, iat |-> t]

\* jwtService.signAsync(payload, {secret: jwt.secret, expiresIn})
SignAccess(userId, t, ttl) ==
    [typ |-> "access", sub |-> userId, iat |-> t, exp |-> t + ttl]

NoJwt == [typ |-> "none", sub |-> "-", iat |-> 0]

\* /^\d{6}$/.test(code)
IsSixDigits(code) == code \in Codes


\* the JWT strings the model ranges over
RefreshJwts == {SignRefresh(u, t) : u \in UserIds, t \in 0..MaxTime}
AccessJwts ==
    {SignAccess(u, t, e) : u \in UserIds, t \in 0..MaxTime, e \in ExpiresInValues}

\* ------------------------------------------------------------------ state
VARIABLES
    now,            \* the wall clock, in ticks
    expiresIn,      \* configuration: jwt.expiresIn, the lifetime it stands for
    expiresInUnit,  \* configuration: the unit letter jwt.expiresIn is written with
    redisStatus,    \* the status of the Redis client
    redisStore,     \* the keys oauth:code:<code> held by Redis
    oauthCodeFallback, \* AuthService.oauthCodeFallback, the in-memory map
    users,          \* table users: id -> row
    refreshTokens,  \* table refresh_tokens (tokenHash unique)
    tokenBlacklist, \* table token_blacklist
    emailTokens,    \* table email_verification_tokens (tokenHash unique)
    resetTokens,    \* table password_reset_tokens (tokenHash unique)
    pc,             \* where each request handler stands
    loc,            \* the handler's local variables
    hist            \* history: what the clients hold (tokens handed out,
                    \* mails delivered) and the calls made with their results

vars == <<now, expiresIn, expiresInUnit, redisStatus, redisStore,
          oauthCodeFallback, users, refreshTokens, tokenBlacklist, emailTokens,
          resetTokens, pc, loc, hist>>

config == <<expiresIn, expiresInUnit>>

cache == <<redisStatus, redisStore, oauthCodeFallback>>

db == <<users, refreshTokens, tokenBlacklist, emailTokens, resetTokens>>

NoRow == [none |-> TRUE]

InitLoc ==
    [op |-> "none", u |-> "-", pw |-> "-", tok |-> NoJwt, row |-> NoRow,
     at |-> NoJwt, rt |-> NoJwt, raw |-> 0, code |-> "-",
     gBan |-> 0, gAct |-> FALSE, gOwn |-> FALSE, gPre |-> FALSE, gOps |-> {},
     gCase |-> "-",
     g |-> [after |-> FALSE, correct |-> FALSE, verified |-> FALSE]]

InitHist(ws) ==
    [watch    |-> ws,                            \* the raw refresh tokens observed
     rot      |-> [t \in RefreshJwts |-> <<>>],  \* outcomes of Rotate on an observed token
     next     |-> [t \in RefreshJwts |-> NoJwt], \* the token a Rotate of it returned
     rts      |-> {},                            \* refresh tokens handed to a client
     logins   |-> {},                            \* those handed by register or a login
     at       |-> [t \in AccessJwts |-> Null],   \* access token -> bans seen when first issued
     stale    |-> {},                            \* writes committed on an already revoked session
     banSeq   |-> [u \in UserIds |-> 0],         \* bans committed per account
     resetSeq |-> [u \in UserIds |-> 0],         \* password resets committed per account
     preReset |-> {},                            \* raw tokens of sessions active when a reset committed
     c6       |-> {},                            \* Rotate on such a token later: "ok", "rejected"
     enf      |-> {},                            \* decisions of the enforcer in the case of a ban
     calls    |-> 0,                             \* well-formed VerifyCode calls begun
     wrong    |-> [id |-> 0, n |-> 0],           \* wrong-code calls ended on the newest code
     ver      |-> {},                            \* outcomes of VerifyCode on a spent code
     resetLog |-> [r \in 1..MaxResetTokens + 1 |-> <<>>],
     pwSets   |-> [r \in 1..MaxResetTokens + 1 |-> 0],
     mailed   |-> {},                            \* raw reset tokens delivered by mail
     obs      |-> {},                            \* what else is observed in this run
     cov      |-> {},                            \* access tokens handed out when a revocation committed, and which
     c11      |-> {},                            \* decisions of the enforcer on such tokens
     auth     |-> {},                            \* Authenticate and FindOrCreate calls with their results
     forgot   |-> {},                            \* RequestReset calls with their results
     reg      |-> {},                            \* Register calls that created the account, with their results
     rotLast  |-> [stage |-> "none", found |-> FALSE, revoked |-> FALSE,
                   expired |-> FALSE, owner |-> FALSE, res |-> "-"],
                                                 \* the last Rotate step: what it met, its outcome
     rotFlip  |-> FALSE,                         \* flips with every Rotate step
     rever    |-> {},                            \* outcomes of VerifyCode on a verified account
     left     |-> {},                            \* kinds of expired records a sweep run left behind
     fresh    |-> {},                            \* access tokens first handed out after every revocation of the account
     after    |-> {},                            \* decisions of the enforcer on such tokens
     frame    |-> {},                            \* decisions of the enforcer on tokens of a session beside a logged-out one
     evicted  |-> {},                            \* exchange codes evicted from the full in-memory map
     nCodes   |-> 0,                             \* OAuth exchange codes generated
     exchanged |-> [c \in 1..MaxOAuthCodes |-> 0]] \* per code: calls that returned the token

\* the history of a run that observes `tags`
Observing(tags) == [InitHist({}) EXCEPT !.obs = tags]

\* the empty database of a fresh deployment, configured with one of `ttls`;
\* the refresh tokens observed are one of `watched`
InitState(ttls, units, statuses, hs) ==
    /\ now = 0
    /\ expiresIn \in ttls
    /\ expiresInUnit \in units
    /\ redisStatus \in statuses
    /\ redisStore = {}
    /\ oauthCodeFallback = {}
    /\ users = <<>>
    /\ refreshTokens = {}
    /\ tokenBlacklist = {}
    /\ emailTokens = {}
    /\ resetTokens = {}
    /\ pc = [p \in Procs |-> "idle"]
    /\ loc = [p \in Procs |-> InitLoc]
    /\ hist \in hs

\* JWT_EXPIRES_IN written in minutes, Redis connected
InitWith(ttls, watched) ==
    InitState(ttls, {"m"}, {"ready"}, {InitHist(ws) : ws \in watched})

\* ------------------------------------------------------- table operations
Exists(u) == u \in DOMAIN users

\* prisma.refreshToken.findUnique({where: {tokenHash}})
FindRefresh(tokenHash) == {r \in refreshTokens : r.tokenHash = tokenHash}

\* a session that is neither revoked nor expired
Active(r, t) == r.revokedAt = Null /\ ~(r.expiresAt < t)

\* calculateAccessTokenExpiry(): expiresIn.match(/^(\d+)([mhd])$/) adds the
\* configured lifetime, anything else adds 15 minutes
calculateAccessTokenExpiry(t) ==
    IF expiresInUnit \in {"m", "h", "d"}
    THEN t + expiresIn
    ELSE t + FallbackExpiryMinutes

\* a revocation of the account's access tokens committed by `op`: the access
\* tokens of the account handed out so far are the ones it is meant to cover;
\* of the revocations that cover a token the last one is remembered
Covered(h, userId, op) ==
    IF "revocation" \in h.obs
    THEN LET toks == {x \in AccessJwts : x.sub = userId /\ h.at[x] # Null}
         IN  [h EXCEPT !.cov = {c \in @ : c.tok \notin toks} \cup
                               {[tok |-> t, op |-> op] : t \in toks}]
    ELSE [h EXCEPT !.fresh = {x \in @ : x.sub # userId}]

\* append to a log of at most MaxLog entries
Logged(l, e) == IF Len(l) < MaxLog THEN Append(l, e) ELSE l

\* the handler of p returns or throws: p is free for the next request
Finish(p) ==
    /\ pc' = [pc EXCEPT ![p] = "idle"]
    /\ loc' = [loc EXCEPT ![p] = InitLoc]

Goto(p, label, l) ==
    /\ pc' = [pc EXCEPT ![p] = label]
    /\ loc' = [loc EXCEPT ![p] = l]

\* ------------------------------------------------------------------ clock
Tick ==
    /\ now < MaxTime
    /\ now' = now + 1
    /\ UNCHANGED <<config, cache, db, pc, loc, hist>>


\* ------------------------------------------- generateAndSaveTokens (shared)
\* signAsync x2: both tokens carry the tick they are signed in
TokSign(p) ==
    /\ pc[p] = "tk_sign"
    /\ Goto(p, "tk_save",
            [loc[p] EXCEPT !.at = SignAccess(loc[p].u, now, expiresIn),
                           !.rt = SignRefresh(loc[p].u, now)])
    /\ UNCHANGED <<now, config, cache, db, hist>>

\* a new row of refresh_tokens; gOp, gBan, gEpoch and gBy are history
\* fields: the operation that issued it, the bans committed when that request
\* began, the resets committed when its authentication was established, and
\* who revoked the row
NewSession(rt, userId, t, gOp, gBan, gEpoch) ==
    [tokenHash |-> hashToken(rt), userId |-> userId,
     expiresAt |-> t + REFRESH_TOKEN_EXPIRY_DAYS, revokedAt |-> Null,
     gOp |-> gOp, gBan |-> gBan, gEpoch |-> gEpoch, gBy |-> "none"]

\* the caller receives {accessToken, refreshToken}
Handed(h, at, rt) ==
    [h EXCEPT !.rts = @ \cup {rt},
              !.at = [@ EXCEPT ![at] = IF @ = Null THEN h.banSeq[at.sub] ELSE @],
              !.fresh = IF "after" \in h.obs /\ h.at[at] = Null
                        THEN @ \cup {at} ELSE @]

\* a Register call that had created the account returned its tokens or threw
Registered(h, l, res) ==
    IF "register" \in h.obs /\ l.op = "register"
    THEN [h EXCEPT !.reg = @ \cup {[handOff |-> l.gCase, res |-> res]}]
    ELSE h

\* refreshToken.create: P2002 when the hash is already stored
TokSave(p) ==
    /\ pc[p] = "tk_save"
    /\ IF FindRefresh(hashToken(loc[p].rt)) # {}
       THEN /\ UNCHANGED refreshTokens
            /\ hist' = Registered(hist, loc[p], "error")
       ELSE /\ refreshTokens' = refreshTokens \cup
                {NewSession(loc[p].rt, loc[p].u, now, loc[p].op, loc[p].gBan,
                            hist.resetSeq[loc[p].u])}
            /\ hist' = Registered([Handed(hist, loc[p].at, loc[p].rt) EXCEPT
                                     !.logins = @ \cup {loc[p].rt}],
                                  loc[p], "ok")
    /\ Finish(p)
    /\ UNCHANGED <<now, config, cache, users, tokenBlacklist, emailTokens, resetTokens>>

\* ------------------------------------------- sendVerificationEmail (shared)
\* updateMany({where: {userId, verifiedAt: null}, data: {verifiedAt: now}})
SvConsume(p) ==
    /\ pc[p] = "sv_consume"
    /\ emailTokens' =
         {IF r.userId = loc[p].u /\ r.verifiedAt = Null
          THEN [r EXCEPT !.verifiedAt = now] ELSE r : r \in emailTokens}
    /\ Goto(p, "sv_create", loc[p])
    /\ UNCHANGED <<now, config, cache, users, refreshTokens, tokenBlacklist,
                   resetTokens, hist>>

\* the outcome of the verification-email hand-off, remembered for the end of
\* the Register call
HandedOff(l, outcome) ==
    IF "register" \in hist.obs THEN [l EXCEPT !.gCase = outcome] ELSE l

\* what follows a throw inside sendVerificationEmail: register catches it
\* and goes on to issue tokens, resend lets it reach the caller
SvThrow(p) ==
    IF loc[p].op = "register"
    THEN Goto(p, "tk_sign", HandedOff(loc[p], "failed"))
    ELSE Finish(p)

\* generateVerificationCode: any code; the codes not stored yet are
\* interchangeable, so one of them stands for all
Drawable(drawn) ==
    LET unused == {c \in drawn : ~\E r \in emailTokens : r.tokenHash = hashToken(c)}
    IN  (drawn \ unused) \cup
        (IF unused = {} THEN {} ELSE {CHOOSE c \in unused : TRUE})

\* generateVerificationCode + emailVerificationToken.create; the id stands
\* for the creation order (createdAt)
SvCreate(p, drawn) ==
    /\ pc[p] = "sv_create"
    /\ \E code \in Drawable(drawn) :
         IF \E r \in emailTokens : r.tokenHash = hashToken(code)
         THEN /\ SvThrow(p)
              /\ UNCHANGED <<emailTokens, hist>>
         ELSE /\ emailTokens' = emailTokens \cup
                  {[id |-> Cardinality(emailTokens) + 1,
                    tokenHash |-> hashToken(code), userId |-> loc[p].u,
                    expiresAt |-> now + EMAIL_VERIFICATION_EXPIRY_MINUTES,
                    attempts |-> 0, maxAttempts |-> DefaultMaxAttempts,
                    verifiedAt |-> Null, gCompared |-> 0]}
              /\ UNCHANGED hist
              /\ Goto(p, "sv_mail", [loc[p] EXCEPT !.code = code])
    /\ UNCHANGED <<now, config, cache, users, refreshTokens, tokenBlacklist, resetTokens>>

\* mailService.sendEmailVerificationCode: delivers or throws
SvMail(p) ==
    /\ pc[p] = "sv_mail"
    /\ \E delivered \in BOOLEAN :
         IF delivered /\ loc[p].op = "resend"
         THEN Finish(p)
         ELSE IF delivered
              THEN Goto(p, "tk_sign", HandedOff(loc[p], "sent"))
              ELSE SvThrow(p)
    /\ UNCHANGED <<now, config, cache, db, hist>>

\* --------------------------------------------------------------- register
NewLocalUser(password) ==
    [password |-> hashPassword(password), provider |-> "local",
     providerId |-> "-", isVerified |-> FALSE, isBanned |-> FALSE,
     bannedUntil |-> Null, lastLoginAt |-> Null]

\* terms check, user.findUnique({email}), hashPassword
Register(p, email, password, agreed) ==
    /\ pc[p] = "idle"
    /\ IF ~agreed \/ Exists(email)
       THEN Finish(p)
       ELSE Goto(p, "rg_create",
                 [loc[p] EXCEPT !.op = "register", !.u = email, !.pw = password])
    /\ UNCHANGED <<now, config, cache, db, hist>>

\* user.create: P2002 when the e-mail was taken meanwhile
RegCreate(p) ==
    /\ pc[p] = "rg_create"
    /\ IF Exists(loc[p].u)
       THEN /\ Finish(p)
            /\ UNCHANGED users
       ELSE /\ users' = (loc[p].u :> NewLocalUser(loc[p].pw)) @@ users
            /\ Goto(p, "sv_consume", loc[p])
    /\ UNCHANGED <<now, config, cache, refreshTokens, tokenBlacklist, emailTokens,
                   resetTokens, hist>>

\* ------------------------------------------------------------------ login
\* a validateUser that answers an unknown e-mail by an error of its own
validateUserTellingUnknown(email, password, t) ==
    IF ~Exists(email) THEN "UserNotFound"
    ELSE IF users[email].password = NoPassword THEN "UseSocialLogin"
    ELSE IF ~comparePassword(password, users[email].password)
         THEN "InvalidCredentials"
    ELSE IF users[email].isBanned
         THEN IF users[email].bannedUntil # Null /\ users[email].bannedUntil <= t
              THEN "unban" ELSE "Banned"
    ELSE "ok"

\* validateUser up to the ban check: "ok", "unban" or the error thrown
validateUser(email, password, t) ==
    LET passwordToCompare ==
            IF Exists(email) /\ users[email].password # NoPassword
            THEN users[email].password ELSE dummyHash
        isPasswordValid == comparePassword(password, passwordToCompare)
    IN  IF ~Exists(email) \/ ~isPasswordValid THEN "InvalidCredentials"
        ELSE IF users[email].password = NoPassword THEN "UseSocialLogin"
        ELSE IF users[email].isBanned
             THEN IF users[email].bannedUntil # Null /\ users[email].bannedUntil <= t
                  THEN "unban" ELSE "Banned"
        ELSE "ok"

\* what an Authenticate call meets: no account with the e-mail, an account
\* without a password hash, a password that is not the account's, or the
\* account's password
LoginCase(email, password) ==
    IF ~Exists(email) THEN "noAccount"
    ELSE IF users[email].password = NoPassword THEN "noPassword"
    ELSE IF ~comparePassword(password, users[email].password) THEN "wrongPassword"
    ELSE "rightPassword"

\* a call of `op` that met `case` went on or ended with res
Authenticated(h, op, case, res) ==
    IF "auth" \in h.obs
    THEN [h EXCEPT !.auth = @ \cup {[op |-> op, case |-> case, res |-> res]}]
    ELSE h

Login(p, email, password) ==
    /\ pc[p] = "idle"
    /\ LET v == validateUser(email, password, now)
           l == [loc[p] EXCEPT !.op = "login", !.u = email,
                               !.gBan = hist.banSeq[email]]
       IN  /\ CASE v = "ok" -> Goto(p, "li_touch", l)
                [] v = "unban" -> Goto(p, "li_unban", l)
                [] OTHER -> Finish(p)
           /\ hist' = Authenticated(hist, "login", LoginCase(email, password), v)
    /\ UNCHANGED <<now, config, cache, db>>

\* validateUser: the automatic lift of a ban whose bannedUntil has passed
LoginUnban(p) ==
    /\ pc[p] = "li_unban"
    /\ users' = [users EXCEPT ![loc[p].u].isBanned = FALSE,
                              ![loc[p].u].bannedUntil = Null]
    /\ Goto(p, "li_touch", loc[p])
    /\ UNCHANGED <<now, config, cache, refreshTokens, tokenBlacklist, emailTokens,
                   resetTokens, hist>>

\* user.update({lastLoginAt}) of login and of oauthLogin
LoginTouch(p) ==
    /\ pc[p] = "li_touch"
    /\ users' = [users EXCEPT ![loc[p].u].lastLoginAt = now]
    /\ Goto(p, "tk_sign", loc[p])
    /\ UNCHANGED <<now, config, cache, refreshTokens, tokenBlacklist, emailTokens,
                   resetTokens, hist>>


\* ------------------------------------------------------------- oauthLogin
ProviderIds == {"g1"}
OAuthIdentities == {"g1", "k1"}          \* providerId g1 at google, k1 at kakao

\* data.provider of the identity
ProviderOf(providerId) == IF providerId = "k1" THEN "kakao" ELSE "google"

NewOAuthUser(providerId) ==
    [password |-> NoPassword, provider |-> ProviderOf(providerId),
     providerId |-> providerId,
     isVerified |-> TRUE, isBanned |-> FALSE, bannedUntil |-> Null,
     lastLoginAt |-> Null]

\* user.findUnique({provider_providerId})
FindByProvider(providerId) ==
    {u \in DOMAIN users :
        /\ users[u].provider = ProviderOf(providerId)
        /\ users[u].providerId = providerId}

\* the policy before the fix: an account with the same e-mail is taken for
\* the identity's account
existingUserLinked(email) ==
    IF Exists(email) THEN "existing" ELSE "create"

\* findOrCreateOAuthUser, user.findUnique({email}): a ConflictException
\* when an account has the e-mail, under whatever provider
existingUserPolicy(email) ==
    IF Exists(email) THEN "Conflict" ELSE "create"

\* findOrCreateOAuthUser, user.findUnique({provider_providerId}): the
\* account of the identity is returned
OAuthLogin(p, providerId, email) ==
    /\ pc[p] = "idle"
    /\ LET found == FindByProvider(providerId)
           l == [loc[p] EXCEPT !.op = "oauth", !.code = providerId]
       IN  IF found # {}
           THEN /\ \E u \in found :
                     Goto(p, "li_touch",
                          [l EXCEPT !.u = u, !.gBan = hist.banSeq[u]])
                /\ hist' = Authenticated(hist, "oauth", "match", "existing")
           ELSE /\ Goto(p, "oa_email", [l EXCEPT !.u = email])
                /\ UNCHANGED hist
    /\ UNCHANGED <<now, config, cache, db>>

\* the lookup by e-mail and its outcome
OAuthEmail(p) ==
    /\ pc[p] = "oa_email"
    /\ LET res == existingUserPolicy(loc[p].u)
       IN  /\ IF res = "Conflict" THEN Finish(p) ELSE Goto(p, "oa_create", loc[p])
           /\ hist' = Authenticated(hist, "oauth",
                                    IF Exists(loc[p].u) THEN "emailTaken" ELSE "new",
                                    res)
    /\ UNCHANGED <<now, config, cache, db>>

\* user.create: P2002 when the e-mail or the identity was taken meanwhile
OAuthCreate(p) ==
    /\ pc[p] = "oa_create"
    /\ IF Exists(loc[p].u) \/ FindByProvider(loc[p].code) # {}
       THEN /\ Finish(p)
            /\ UNCHANGED users
       ELSE /\ users' = (loc[p].u :> NewOAuthUser(loc[p].code)) @@ users
            /\ Goto(p, "li_touch", loc[p])
    /\ UNCHANGED <<now, config, cache, refreshTokens, tokenBlacklist, emailTokens,
                   resetTokens, hist>>

\* ---------------------------------------------------------------- refresh
\* a check that looks at the expiry before the revocation
RefreshCheckExpiryFirst(rows, userId, t) ==
    IF rows = {} THEN "InvalidToken"
    ELSE LET storedToken == CHOOSE r \in rows : TRUE
         IN  IF storedToken.expiresAt < t THEN "Expired"
             ELSE IF storedToken.revokedAt # Null THEN "Revoked"
             ELSE IF storedToken.userId # userId THEN "OwnerMismatch"
             ELSE "ok"

\* the checks of refresh() on the stored row: the error thrown, or "ok"
RefreshCheck(rows, userId, t) ==
    IF rows = {} THEN "InvalidToken"
    ELSE LET storedToken == CHOOSE r \in rows : TRUE
         IN  IF storedToken.revokedAt # Null THEN "Revoked"
             ELSE IF storedToken.expiresAt < t THEN "Expired"
             ELSE IF storedToken.userId # userId THEN "OwnerMismatch"
             ELSE "ok"

\* a step of a Rotate of the caller userId (the read and its checks, or the
\* transaction) met the rows found under the token's hash and ended with res
RotateStep(h, stage, rows, userId, t, res) ==
    IF "rotate" \in h.obs
    THEN [h EXCEPT !.rotLast = [stage |-> stage,
                                found |-> rows # {},
                                revoked |-> \E r \in rows : r.revokedAt # Null,
                                expired |-> \E r \in rows : r.expiresAt < t,
                                owner |-> \E r \in rows : r.userId = userId,
                                res |-> res],
                   !.rotFlip = ~@]
    ELSE h

\* a Rotate call with raw token tok ended with outcome r
RotateDone(h, tok, r, act, own, pre) ==
    [h EXCEPT !.rot[tok] = IF tok \in h.watch
                           THEN Logged(@, [r |-> r, act |-> act, own |-> own])
                           ELSE @,
              !.c6 = IF pre THEN @ \cup {IF r = "ok" THEN "ok" ELSE "rejected"}
                     ELSE @]

\* a Rotate of the observed token tok returned rt, observed from now on
Rotated(h, tok, rt) ==
    IF tok \in h.watch /\ h.next[tok] = NoJwt /\ Cardinality(h.watch) < MaxLog
    THEN [h EXCEPT !.next[tok] = rt, !.watch = @ \cup {rt}]
    ELSE h

Refresh(p, userId, oldRefreshToken) ==
    /\ pc[p] = "idle"
    /\ LET rows == FindRefresh(hashToken(oldRefreshToken))
           c == RefreshCheck(rows, userId, now)
           act == \E r \in rows : Active(r, now)
           own == \E r \in rows : r.userId = userId
           pre == oldRefreshToken \in hist.preReset
       IN  IF c = "ok"
           THEN /\ Goto(p, "rf_sign",
                        [loc[p] EXCEPT !.op = "refresh", !.u = userId,
                                       !.tok = oldRefreshToken,
                                       !.row = CHOOSE r \in rows : TRUE,
                                       !.gBan = hist.banSeq[userId],
                                       !.gAct = act, !.gOwn = own, !.gPre = pre])
                /\ hist' = RotateStep(hist, "check", rows, userId, now, c)
           ELSE /\ Finish(p)
                /\ hist' = RotateStep(RotateDone(hist, oldRefreshToken, c, act, own, pre),
                                      "check", rows, userId, now, c)
    /\ UNCHANGED <<now, config, cache, db>>

\* signAsync x2 with the payload of the stored row's user
RefreshSign(p) ==
    /\ pc[p] = "rf_sign"
    /\ Goto(p, "rf_tx",
            [loc[p] EXCEPT !.at = SignAccess(loc[p].row.userId, now, expiresIn),
                           !.rt = SignRefresh(loc[p].row.userId, now)])
    /\ UNCHANGED <<now, config, cache, db, hist>>

\* who committed on a session that another request had already revoked
StaleWrite(h, rows, second) ==
    [h EXCEPT !.stale = @ \cup
        {[first |-> r.gBy, second |-> second] : r \in {x \in rows : x.revokedAt # Null}}]

\* $transaction([refreshToken.update({where: {tokenHash}}), refreshToken.create])
\* P2025 when the old row is gone, P2002 when the new hash is stored: both
\* roll the transaction back
RefreshTx(p) ==
    /\ pc[p] = "rf_tx"
    /\ LET tokenHash == hashToken(loc[p].tok)
           old == FindRefresh(tokenHash)
           r == IF old = {} THEN "NotFound"
                ELSE IF FindRefresh(hashToken(loc[p].rt)) # {} THEN "Conflict"
                ELSE "ok"
       IN  /\ IF r = "ok"
              THEN /\ refreshTokens' =
                        {IF x.tokenHash = tokenHash
                         THEN [x EXCEPT !.revokedAt = now,
                                        !.gBy = IF @ = "none" THEN "rotate" ELSE @]
                         ELSE x : x \in refreshTokens}
                        \cup {NewSession(loc[p].rt, loc[p].row.userId, now, "refresh",
                                         loc[p].gBan, loc[p].row.gEpoch)}
                   /\ hist' = RotateStep(
                                StaleWrite(
                                  Handed(Rotated(RotateDone(hist, loc[p].tok, r,
                                                            loc[p].gAct, loc[p].gOwn,
                                                            loc[p].gPre),
                                                 loc[p].tok, loc[p].rt),
                                         loc[p].at, loc[p].rt),
                                  old, "rotate"),
                                "tx", old, loc[p].u, now, r)
              ELSE /\ UNCHANGED refreshTokens
                   /\ hist' = RotateStep(
                                RotateDone(hist, loc[p].tok, r, loc[p].gAct,
                                           loc[p].gOwn, loc[p].gPre),
                                "tx", old, loc[p].u, now, r)
    /\ Finish(p)
    /\ UNCHANGED <<now, config, cache, users, tokenBlacklist, emailTokens, resetTokens>>

\* PrismaExceptionFilter.catch: the HTTP status and message sent for a
\* PrismaClientKnownRequestError; the message of P2002 names the columns of
\* the unique index unless NODE_ENV is 'production'
PrismaExceptionFilter(code, isProduction) ==
    CASE code = "P2002" ->
            [status |-> "CONFLICT",
             message |-> IF isProduction THEN "Resource already exists"
                         ELSE "Unique constraint failed on tokenHash"]
      [] code = "P2025" ->
            [status |-> "NOT_FOUND", message |-> "Resource not found"]
      [] OTHER ->
            [status |-> "INTERNAL_SERVER_ERROR", message |-> "Database error"]

\* what the caller of POST /auth/refresh receives for the outcome r of a
\* Rotate: refresh() throws UnauthorizedException from its checks and lets
\* the errors of the transaction through to the exception filters
RefreshResponse(r, isProduction) ==
    CASE r = "ok" -> [status |-> "OK", message |-> "tokens"]
      [] r = "NotFound" -> PrismaExceptionFilter("P2025", isProduction)
      [] r = "Conflict" -> PrismaExceptionFilter("P2002", isProduction)
      [] OTHER -> [status |-> "UNAUTHORIZED", message |-> r]

\* ----------------------------------------------------------------- logout
Logout(p, refreshToken) ==
    /\ pc[p] = "idle"
    /\ LET rows == FindRefresh(hashToken(refreshToken))
       IN  IF rows = {} \/ \E r \in rows : r.revokedAt # Null
           THEN Finish(p)
           ELSE Goto(p, "lo_tx",
                     [loc[p] EXCEPT !.op = "logout", !.tok = refreshToken,
                                    !.u = (CHOOSE r \in rows : TRUE).userId])
    /\ UNCHANGED <<now, config, cache, db, hist>>

\* a row of token_blacklist
BlacklistEntry(userId, revokedAt, expiresAt) ==
    [userId |-> userId, revokedAt |-> revokedAt, expiresAt |-> expiresAt]

\* $transaction([refreshToken.update, tokenBlacklist.create]); P2025 rolls back
LogoutTx(p) ==
    /\ pc[p] = "lo_tx"
    /\ LET tokenHash == hashToken(loc[p].tok)
           old == FindRefresh(tokenHash)
       IN  IF old = {}
           THEN UNCHANGED <<refreshTokens, tokenBlacklist, hist>>
           ELSE /\ refreshTokens' =
                     {IF x.tokenHash = tokenHash
                      THEN [x EXCEPT !.revokedAt = now,
                                     !.gBy = IF @ = "none" THEN "logout" ELSE @]
                      ELSE x : x \in refreshTokens}
                /\ tokenBlacklist' = tokenBlacklist \cup
                     {BlacklistEntry(loc[p].u, now, calculateAccessTokenExpiry(now))}
                /\ hist' = Covered(StaleWrite(hist, old, "logout"), loc[p].u, "logout")
    /\ Finish(p)
    /\ UNCHANGED <<now, config, cache, users, emailTokens, resetTokens>>

\* blacklistFromAccessToken: logout without a refresh token; verifyAsync
\* checks signature and exp, then tokenBlacklist.create
blacklistFromAccessToken(p, payload) ==
    /\ pc[p] = "idle"
    /\ hist.at[payload] # Null
    /\ IF now < payload.exp
       THEN /\ tokenBlacklist' = tokenBlacklist \cup
                 {BlacklistEntry(payload.sub, now, calculateAccessTokenExpiry(now))}
            /\ hist' = Covered(hist, payload.sub, "logout")
       ELSE UNCHANGED <<tokenBlacklist, hist>>
    /\ Finish(p)
    /\ UNCHANGED <<now, config, cache, users, refreshTokens, emailTokens, resetTokens>>

\* --------------------------------------------- UsersService.changePassword
\* findOneWithPassword, the OAuth check, bcrypt.compare, bcrypt.hash
changePassword(p, id, currentPassword, newPassword) ==
    /\ pc[p] = "idle"
    /\ IF \/ ~Exists(id)
          \/ users[id].password = NoPassword
          \/ ~comparePassword(currentPassword, users[id].password)
       THEN Finish(p)
       ELSE Goto(p, "cp_tx",
                 [loc[p] EXCEPT !.op = "change", !.u = id, !.pw = newPassword])
    /\ UNCHANGED <<now, config, cache, db, hist>>

\* $transaction([user.update({password}), refreshToken.updateMany({userId,
\* revokedAt: null}), tokenBlacklist.create({expiresAt: now + 15 minutes})])
ChangePasswordTx(p) ==
    /\ pc[p] = "cp_tx"
    /\ users' = [users EXCEPT ![loc[p].u].password = hashPassword(loc[p].pw)]
    /\ refreshTokens' =
         {IF r.userId = loc[p].u /\ r.revokedAt = Null
          THEN [r EXCEPT !.revokedAt = now, !.gBy = "change"] ELSE r :
             r \in refreshTokens}
    /\ tokenBlacklist' = tokenBlacklist \cup
         {BlacklistEntry(loc[p].u, now, now + PasswordChangeBlacklistMinutes)}
    /\ hist' = Covered(hist, loc[p].u, "change")
    /\ Finish(p)
    /\ UNCHANGED <<now, config, cache, emailTokens, resetTokens>>

\* ---------------------------------------------------------------- banUser
\* bannedUntil of a report action; null is a permanent ban
BannedUntil(action, t) == IF action = "USER_BAN_1DAY" THEN t + BanDays ELSE Null

\* $transaction(async tx => { user.update; refreshToken.deleteMany;
\* tokenBlacklist.create }): revokedAt of the entry is the column default, now
banUser(targetUserId, action) ==
    /\ Exists(targetUserId)
    /\ hist.banSeq[targetUserId] < MaxBans
    /\ users' = [users EXCEPT ![targetUserId].isBanned = TRUE,
                              ![targetUserId].bannedUntil = BannedUntil(action, now)]
    /\ refreshTokens' = {r \in refreshTokens : r.userId # targetUserId}
    /\ tokenBlacklist' = tokenBlacklist \cup
         {BlacklistEntry(targetUserId, now, now + BanBlacklistMinutes)}
    /\ hist' = Covered([hist EXCEPT !.banSeq[targetUserId] = @ + 1],
                        targetUserId, "ban")
    /\ UNCHANGED <<now, config, cache, emailTokens, resetTokens, pc, loc>>

\* ---------------------------------------------------- cleanupExpiredTokens
\* the records of the four token tables whose expiresAt lies before t
ExpiredRecords(t) ==
    {<<"session", r>> : r \in {x \in refreshTokens : x.expiresAt < t}}
    \cup {<<"revocation", r>> : r \in {x \in tokenBlacklist : x.expiresAt < t}}
    \cup {<<"code", r>> : r \in {x \in emailTokens : x.expiresAt < t}}
    \cup {<<"reset", r>> : r \in {x \in resetTokens : x.expiresAt < t}}

\* the records stored, by table
Stored(sessions, revocations) ==
    {<<"session", r>> : r \in sessions}
    \cup {<<"revocation", r>> : r \in revocations}
    \cup {<<"code", r>> : r \in emailTokens}
    \cup {<<"reset", r>> : r \in resetTokens}

\* a sweep run that began with the expired records `began` has completed
Swept(h, began, stored) ==
    IF "sweep" \in h.obs
    THEN [h EXCEPT !.left = @ \cup {e[1] : e \in began \cap stored}]
    ELSE h

\* refreshToken.deleteMany({OR: [{expiresAt < now}, {revokedAt != null}]})
Sweep(p) ==
    /\ pc[p] = "idle"
    /\ refreshTokens' =
         {r \in refreshTokens : ~(r.expiresAt < now \/ r.revokedAt # Null)}
    /\ Goto(p, "sw_blacklist",
            [loc[p] EXCEPT !.op = "sweep",
                           !.gOps = IF "sweep" \in hist.obs
                                    THEN ExpiredRecords(now) ELSE {}])
    /\ UNCHANGED <<now, config, cache, users, tokenBlacklist, emailTokens,
                   resetTokens, hist>>

\* tokenBlacklist.deleteMany({expiresAt < now}); nothing else is deleted
SweepBlacklist(p) ==
    /\ pc[p] = "sw_blacklist"
    /\ tokenBlacklist' = {b \in tokenBlacklist : ~(b.expiresAt < now)}
    /\ hist' = Swept(hist, loc[p].gOps, Stored(refreshTokens, tokenBlacklist'))
    /\ Finish(p)
    /\ UNCHANGED <<now, config, cache, users, refreshTokens, emailTokens,
                   resetTokens>>

\* ----------------------------------------------------- JwtStrategy.validate
\* tokenBlacklist.findFirst({userId, revokedAt >= iat, expiresAt > now})
Blacklisted(payload, t) ==
    \E b \in tokenBlacklist :
        /\ b.userId = payload.sub
        /\ b.revokedAt >= payload.iat
        /\ b.expiresAt > t

\* a ban check that forgets the permanent ban (bannedUntil null)
BanEnforcedNoPermanent(userId, t) ==
    /\ Exists(userId)
    /\ users[userId].isBanned
    /\ users[userId].bannedUntil # Null /\ users[userId].bannedUntil > t

\* user?.isBanned && (!user.bannedUntil || user.bannedUntil > now)
BanEnforced(userId, t) ==
    /\ Exists(userId)
    /\ users[userId].isBanned
    /\ (users[userId].bannedUntil = Null \/ users[userId].bannedUntil > t)

\* the account's ban is active at t: isBanned, and bannedUntil null
\* (permanent) or in the future
BanInForce(h, userId, t) ==
    /\ h.banSeq[userId] > 0
    /\ users[userId].isBanned
    /\ \/ users[userId].bannedUntil = Null
       \/ t < users[userId].bannedUntil

\* the enforcer decided on a request; case: the token was issued before the
\* last ban, the request began after it committed, and the ban is active
Decided(h, payload, began, t, res, why) ==
    IF /\ h.at[payload] < h.banSeq[payload.sub]
       /\ began = h.banSeq[payload.sub]
       /\ BanInForce(h, payload.sub, t)
    THEN [h EXCEPT !.enf = @ \cup {[res |-> res, why |-> why]}]
    ELSE h

\* the revocations that had committed, when a request began, on a token
\* handed out before them
CoveredBy(h, payload) == {c.op : c \in {x \in h.cov : x.tok = payload}}

\* the enforcer decided on a request carrying such a token
Enforced(h, ops, res) ==
    [h EXCEPT !.c11 = @ \cup {[op |-> o, res |-> res] : o \in ops}]

\* the session the access token was issued with: generateAndSaveTokens and
\* refresh sign both tokens with one payload in one instant
SessionOf(payload) == FindRefresh(hashToken(SignRefresh(payload.sub, payload.iat)))

\* the access token's session is active, and another session of the account
\* has been ended by a Logout
BesideLogout(payload, t) ==
    /\ \E r \in SessionOf(payload) : Active(r, t)
    /\ \E r \in refreshTokens \ SessionOf(payload) :
          r.userId = payload.sub /\ r.gBy = "logout"

\* the enforcer decided on a request carrying such a token
Framed(h, beside, res) ==
    IF "frame" \in h.obs /\ beside
    THEN [h EXCEPT !.frame = @ \cup {res}]
    ELSE h

\* the enforcer decided on a request carrying a token first handed out
\* after every revocation of its account
DecidedAfter(h, fresh, res) ==
    IF fresh THEN [h EXCEPT !.after = @ \cup {res}] ELSE h

\* passport-jwt has verified signature and exp (ignoreExpiration: false);
\* then the blacklist lookup
Validate(p, payload) ==
    /\ pc[p] = "idle"
    /\ hist.at[payload] # Null
    /\ now < payload.exp
    /\ IF Blacklisted(payload, now)
       THEN /\ Finish(p)
            /\ hist' = DecidedAfter(
                          Framed(Enforced(Decided(hist, payload,
                                                  hist.banSeq[payload.sub],
                                                  now, "reject", "blacklist"),
                                          CoveredBy(hist, payload), "reject"),
                                 BesideLogout(payload, now), "reject"),
                          payload \in hist.fresh, "reject")
       ELSE /\ Goto(p, "va_user",
                    [loc[p] EXCEPT !.op = "validate", !.tok = payload,
                                   !.gBan = hist.banSeq[payload.sub],
                                   !.gOps = CoveredBy(hist, payload),
                                   !.gPre = /\ "frame" \in hist.obs
                                            /\ BesideLogout(payload, now),
                                   !.gOwn = payload \in hist.fresh])
            /\ UNCHANGED hist
    /\ UNCHANGED <<now, config, cache, db>>

\* user.findUnique({id: payload.sub}) and the ban check
ValidateUser(p) ==
    /\ pc[p] = "va_user"
    /\ LET res == IF BanEnforced(loc[p].tok.sub, now) THEN "reject" ELSE "accept"
           ops == IF now < loc[p].tok.exp THEN loc[p].gOps ELSE {}
       IN  hist' = DecidedAfter(
                     Framed(Enforced(Decided(hist, loc[p].tok, loc[p].gBan, now,
                                             res, "banned"),
                                     ops, res),
                            loc[p].gPre, res),
                     loc[p].gOwn, res)
    /\ Finish(p)
    /\ UNCHANGED <<now, config, cache, db>>


\* ------------------------------------------------------------ verifyEmail
\* emailVerificationToken.findFirst({userId, verifiedAt: null,
\* expiresAt > now}, orderBy createdAt desc)
LiveCodes(userId, t) ==
    {r \in emailTokens : r.userId = userId /\ r.verifiedAt = Null /\ r.expiresAt > t}

LatestCode(rows) == CHOOSE r \in rows : \A x \in rows : x.id <= r.id

UpdateCode(id, f(_)) == {IF r.id = id THEN f(r) ELSE r : r \in emailTokens}

Consume(r) == [r EXCEPT !.verifiedAt = now]

\* update({data: {attempts: {increment: 1}}}); gCompared is a history field,
\* the hash comparisons made against the code: one follows each increment
\* without an await in between
IncrementAttempts(r) == [r EXCEPT !.attempts = @ + 1, !.gCompared = @ + 1]

\* the newest code issued for the account, live or not
NewestCode(userId) ==
    {r \in emailTokens :
        r.userId = userId /\ \A x \in emailTokens : x.userId = userId => x.id <= r.id}

\* the account's newest code has had DefaultMaxAttempts wrong-code calls
Spent(h, userId) ==
    \E r \in NewestCode(userId) :
        h.wrong.id = r.id /\ h.wrong.n >= DefaultMaxAttempts

\* the code presented is the account's newest code
Correct(userId, code) ==
    \E r \in NewestCode(userId) : r.tokenHash = hashToken(code)

\* a VerifyCode call that had read code row `row` (NoRow: none was live) ended;
\* g.after: when it began, the newest code had had its wrong-code calls;
\* g.correct: it presented the newest code; g.verified: when it began, the
\* account was verified
Verified(h, row, code, g, res) ==
    LET wrong == /\ row # NoRow
                 /\ row.tokenHash # hashToken(code)
                 /\ row.id = Cardinality(emailTokens)
    IN  [h EXCEPT !.ver = IF g.after
                          THEN @ \cup {[correct |-> g.correct, res |-> res]}
                          ELSE @,
                  !.rever = IF g.verified
                            THEN @ \cup {[correct |-> g.correct, res |-> res]}
                            ELSE @,
                  !.wrong = IF ~wrong THEN @
                            ELSE IF @.id # row.id THEN [id |-> row.id, n |-> 1]
                            ELSE IF @.n < DefaultMaxAttempts
                                 THEN [@ EXCEPT !.n = @ + 1] ELSE @]

\* JwtAuthGuard on the route: the caller holds an access token of the
\* account (a login renews it)
HoldsToken(userId) ==
    \E t \in AccessJwts : t.sub = userId /\ hist.at[t] # Null

Called(h) == [h EXCEPT !.calls = @ + 1]

verifyEmail(p, userId, code) ==
    /\ pc[p] = "idle"
    /\ HoldsToken(userId)
    /\ hist.calls < MaxVerifyCalls
    /\ IF ~IsSixDigits(code)
       THEN /\ Finish(p)
            /\ UNCHANGED hist
       ELSE LET live == LiveCodes(userId, now)
                l == [loc[p] EXCEPT !.op = "verify", !.u = userId, !.code = code,
                                    !.g = [after |-> Spent(hist, userId),
                                           correct |-> Correct(userId, code),
                                           verified |-> /\ "reverify" \in hist.obs
                                                        /\ users[userId].isVerified]]
            IN  IF live = {}
                THEN /\ Finish(p)
                     /\ hist' = Called(Verified(hist, NoRow, code, l.g, "NoActiveCode"))
                ELSE LET latestToken == LatestCode(live)
                         ll == [l EXCEPT !.row = latestToken,
                                         !.gAct = users[userId].isVerified]
                     IN  /\ IF latestToken.attempts >= latestToken.maxAttempts
                            THEN Goto(p, "ve_exhausted", ll)
                            ELSE Goto(p, "ve_increment", ll)
                         /\ hist' = Called(hist)
    /\ UNCHANGED <<now, config, cache, db>>

\* the budget was used up before this call: consume the code and throw
VerifyExhausted(p) ==
    /\ pc[p] = "ve_exhausted"
    /\ emailTokens' = UpdateCode(loc[p].row.id, Consume)
    /\ hist' = Verified(hist, loc[p].row, loc[p].code, loc[p].g, "TooManyAttempts")
    /\ Finish(p)
    /\ UNCHANGED <<now, config, cache, users, refreshTokens, tokenBlacklist, resetTokens>>

\* the increment, then the comparison with the row as it was read
VerifyIncrement(p) ==
    /\ pc[p] = "ve_increment"
    /\ emailTokens' = UpdateCode(loc[p].row.id, IncrementAttempts)
    /\ LET latestToken == loc[p].row
           remainingAttempts == latestToken.maxAttempts - latestToken.attempts - 1
       IN  IF latestToken.tokenHash # hashToken(loc[p].code)
           THEN IF remainingAttempts <= 0
                THEN /\ Goto(p, "ve_last", loc[p])
                     /\ UNCHANGED hist
                ELSE /\ Finish(p)
                     /\ hist' = Verified(hist, loc[p].row, loc[p].code,
                                         loc[p].g, "Mismatch")
           ELSE IF loc[p].gAct
                THEN /\ Finish(p)
                     /\ hist' = Verified(hist, loc[p].row, loc[p].code,
                                         loc[p].g, "AlreadyVerified")
                ELSE /\ Goto(p, "ve_tx", loc[p])
                     /\ UNCHANGED hist
    /\ UNCHANGED <<now, config, cache, users, refreshTokens, tokenBlacklist, resetTokens>>

\* the last allowed attempt failed: consume the code and throw
VerifyLast(p) ==
    /\ pc[p] = "ve_last"
    /\ emailTokens' = UpdateCode(loc[p].row.id, Consume)
    /\ hist' = Verified(hist, loc[p].row, loc[p].code, loc[p].g, "TooManyAttempts")
    /\ Finish(p)
    /\ UNCHANGED <<now, config, cache, users, refreshTokens, tokenBlacklist, resetTokens>>

\* $transaction([user.update({isVerified: true}), token.update({verifiedAt})])
VerifyTx(p) ==
    /\ pc[p] = "ve_tx"
    /\ users' = [users EXCEPT ![loc[p].u].isVerified = TRUE]
    /\ emailTokens' = UpdateCode(loc[p].row.id, Consume)
    /\ hist' = Verified(hist, loc[p].row, loc[p].code, loc[p].g, "Verified")
    /\ Finish(p)
    /\ UNCHANGED <<now, config, cache, refreshTokens, tokenBlacklist, resetTokens>>

\* the process dies between two awaits of verifyEmail
Crash(p) ==
    /\ pc[p] \in {"ve_exhausted", "ve_increment", "ve_last", "ve_tx"}
    /\ Finish(p)
    /\ UNCHANGED <<now, config, cache, db, hist>>

\* resendVerificationEmail
Resend(p, userId) ==
    /\ pc[p] = "idle"
    /\ HoldsToken(userId)
    /\ IF ~Exists(userId) \/ users[userId].isVerified
       THEN Finish(p)
       ELSE Goto(p, "sv_consume", [loc[p] EXCEPT !.op = "resend", !.u = userId])
    /\ UNCHANGED <<now, config, cache, db, hist>>


\* --------------------------------------------------------- forgotPassword
\* user.findUnique({email}); nothing happens for an unknown e-mail or an
\* account without a password
\* a RequestReset call for an e-mail of `case` returned or threw
Requested(h, case, res) ==
    IF "forgot" \in h.obs
    THEN [h EXCEPT !.forgot = @ \cup {[case |-> case, res |-> res]}]
    ELSE h

forgotPassword(p, email) ==
    /\ pc[p] = "idle"
    /\ Cardinality(resetTokens) < MaxResetTokens
    /\ IF ~Exists(email) \/ users[email].password = NoPassword
       THEN /\ Finish(p)
            /\ hist' = Requested(hist, IF Exists(email) THEN "noPassword"
                                       ELSE "noAccount", "success")
       ELSE /\ Goto(p, "fp_consume", [loc[p] EXCEPT !.op = "forgot", !.u = email])
            /\ UNCHANGED hist
    /\ UNCHANGED <<now, config, cache, db>>

\* passwordResetToken.updateMany({where: {userId, usedAt: null}})
ForgotConsume(p) ==
    /\ pc[p] = "fp_consume"
    /\ resetTokens' =
         {IF r.userId = loc[p].u /\ r.usedAt = Null
          THEN [r EXCEPT !.usedAt = now] ELSE r : r \in resetTokens}
    /\ Goto(p, "fp_create", loc[p])
    /\ UNCHANGED <<now, config, cache, users, refreshTokens, tokenBlacklist,
                   emailTokens, hist>>

\* crypto.randomBytes(32): a token never drawn before
ForgotCreate(p) ==
    /\ pc[p] = "fp_create"
    /\ LET raw == Cardinality(resetTokens) + 1
       IN  /\ resetTokens' = resetTokens \cup
                {[tokenHash |-> hashToken(raw), userId |-> loc[p].u,
                  expiresAt |-> now + PASSWORD_RESET_EXPIRY_HOURS,
                  usedAt |-> Null]}
           /\ Goto(p, "fp_mail", [loc[p] EXCEPT !.raw = raw])
    /\ UNCHANGED <<now, config, cache, users, refreshTokens, tokenBlacklist,
                   emailTokens, hist>>

\* transporter.sendMail delivers or fails; MailService logs a failure and
\* goes on when NODE_ENV is 'development' and rethrows it otherwise
MailOutcomes == {"sent", "failedLogged", "failedThrown"}

\* mailService.sendPasswordResetEmail: delivers the raw token or throws;
\* forgotPassword does not catch
ForgotMail(p) ==
    /\ pc[p] = "fp_mail"
    /\ \E outcome \in MailOutcomes :
         hist' = Requested(
                   [hist EXCEPT !.mailed = IF outcome = "sent"
                                           THEN @ \cup {loc[p].raw} ELSE @],
                   "password",
                   IF outcome = "failedThrown" THEN "error" ELSE "success")
    /\ Finish(p)
    /\ UNCHANGED <<now, config, cache, db>>

\* ---------------------------------------------------------- resetPassword
FindReset(tokenHash) == {r \in resetTokens : r.tokenHash = tokenHash}

\* the checks of resetPassword() on the stored row
ResetCheck(rows, t) ==
    IF rows = {} THEN "InvalidToken"
    ELSE LET resetToken == CHOOSE r \in rows : TRUE
         IN  IF resetToken.usedAt # Null THEN "AlreadyUsed"
             ELSE IF resetToken.expiresAt < t THEN "Expired"
             ELSE "ok"

\* a CompleteReset call with raw token raw ended; fresh: no later token had
\* been requested for the account and the token had not expired when the
\* call began
ResetDone(h, raw, res, fresh) ==
    [h EXCEPT !.resetLog[raw] = Logged(@, [r |-> res, fresh |-> fresh])]

resetPassword(p, token, newPassword) ==
    /\ pc[p] = "idle"
    /\ token \in hist.mailed
    /\ LET rows == FindReset(hashToken(token))
           c == ResetCheck(rows, now)
           fresh == \E r \in rows :
                      /\ ~(r.expiresAt < now)
                      /\ \A x \in resetTokens :
                            x.userId = r.userId => x.tokenHash[2] <= token
       IN  IF c = "ok"
           THEN /\ Goto(p, "rp_tx",
                        [loc[p] EXCEPT !.op = "reset", !.raw = token,
                                       !.pw = newPassword, !.gAct = fresh,
                                       !.row = CHOOSE r \in rows : TRUE])
                /\ UNCHANGED hist
           ELSE /\ Finish(p)
                /\ hist' = ResetDone(hist, token, c, fresh)
    /\ UNCHANGED <<now, config, cache, db>>

\* $transaction([user.update({password}), passwordResetToken.update({usedAt}),
\* refreshToken.updateMany({userId, revokedAt: null}), tokenBlacklist.create])
ResetTx(p) ==
    /\ pc[p] = "rp_tx"
    /\ LET userId == loc[p].row.userId
           tokenHash == hashToken(loc[p].raw)
       IN  /\ users' = [users EXCEPT ![userId].password = hashPassword(loc[p].pw)]
           /\ resetTokens' =
                {IF r.tokenHash = tokenHash THEN [r EXCEPT !.usedAt = now] ELSE r :
                    r \in resetTokens}
           /\ refreshTokens' =
                {IF r.userId = userId /\ r.revokedAt = Null
                 THEN [r EXCEPT !.revokedAt = now, !.gBy = "reset"] ELSE r :
                    r \in refreshTokens}
           /\ tokenBlacklist' = tokenBlacklist \cup
                {BlacklistEntry(userId, now, calculateAccessTokenExpiry(now))}
           /\ hist' = [Covered(ResetDone(hist, loc[p].raw, "ok", loc[p].gAct),
                                userId, "reset") EXCEPT
                         !.resetSeq[userId] = @ + 1,
                         !.pwSets[loc[p].raw] = @ + 1,
                         !.preReset = @ \cup
                            {t \in RefreshJwts :
                                \E r \in refreshTokens :
                                    /\ r.tokenHash = hashToken(t)
                                    /\ r.userId = userId
                                    /\ Active(r, now)}]
    /\ Finish(p)
    /\ UNCHANGED <<now, config, cache, emailTokens>>


\* ------------------------------------------------- OAuth exchange codes
\* redisService.isConnected(): this.redis.status === 'ready'
isConnected == redisStatus = "ready"

\* the connection to Redis is lost or comes back; the keys stay in Redis
RedisStatusChange ==
    /\ redisStatus' = IF redisStatus = "ready" THEN "reconnecting" ELSE "ready"
    /\ UNCHANGED <<now, config, redisStore, oauthCodeFallback, db, pc, loc, hist>>

\* cleanupExpiredFallbackCodes: delete the entries with expiresAt < now
cleanupExpiredFallbackCodes(map, t) == {e \in map : ~(e.expiresAt < t)}

\* an eviction that takes the entries from the other end of the sorted list
NewestCodes(map, n) ==
    {e \in map :
        Cardinality({x \in map : \/ x.expiresAt > e.expiresAt
                                  \/ (x.expiresAt = e.expiresAt /\ x.code > e.code)}) < n}

\* entries.sort by expiresAt (stable: insertion order among equals), the
\* first n of them
OldestCodes(map, n) ==
    {e \in map :
        Cardinality({x \in map : \/ x.expiresAt < e.expiresAt
                                  \/ (x.expiresAt = e.expiresAt /\ x.code < e.code)}) < n}

\* generateOAuthCode: crypto.randomBytes(32), a code never drawn before;
\* redis.set(key, accessToken, 'EX', 60), or the in-memory map after the
\* cleanup and the eviction of the oldest half of a full map
generateOAuthCode(p, accessToken) ==
    /\ pc[p] = "idle"
    /\ hist.at[accessToken] # Null
    /\ hist.nCodes < MaxOAuthCodes
    /\ LET code == hist.nCodes + 1
           entry == [code |-> code, accessToken |-> accessToken,
                     expiresAt |-> now + OAUTH_CODE_EXPIRY_SECONDS]
           cleaned == cleanupExpiredFallbackCodes(oauthCodeFallback, now)
           kept == IF Cardinality(cleaned) >= MAX_OAUTH_CODES
                   THEN cleaned \ OldestCodes(cleaned, MAX_OAUTH_CODES \div 2)
                   ELSE cleaned
       IN  IF isConnected
           THEN /\ redisStore' = redisStore \cup {entry}
                /\ UNCHANGED oauthCodeFallback
                /\ hist' = [hist EXCEPT !.nCodes = code]
           ELSE /\ oauthCodeFallback' = kept \cup {entry}
                /\ UNCHANGED redisStore
                /\ hist' = [hist EXCEPT !.nCodes = code,
                                        !.evicted = @ \cup {e.code : e \in cleaned \ kept}]
    /\ Finish(p)
    /\ UNCHANGED <<now, config, redisStatus, db>>

\* redis.get(key): Redis drops a key when its EX time has passed
RedisGet(code, t) == {e \in redisStore : e.code = code /\ t < e.expiresAt}

\* a RedeemExchangeCode call returned the access token
Exchanged(h, code) == [h EXCEPT !.exchanged[code] = @ + 1]

\* exchangeOAuthCode: with Redis, redis.get and the null check; without, the
\* whole of the in-memory path, which has no await
exchangeOAuthCode(p, code) ==
    /\ pc[p] = "idle"
    /\ IF isConnected
       THEN /\ IF RedisGet(code, now) = {}
               THEN Finish(p)
               ELSE Goto(p, "ex_del",
                         [loc[p] EXCEPT !.op = "exchange", !.raw = code,
                                        !.at = (CHOOSE e \in RedisGet(code, now) :
                                                    TRUE).accessToken])
            /\ UNCHANGED <<oauthCodeFallback, hist>>
       ELSE LET cached == {e \in oauthCodeFallback : e.code = code}
            IN  /\ oauthCodeFallback' = oauthCodeFallback \ cached
                /\ hist' = IF cached # {} /\ \A e \in cached : ~(e.expiresAt < now)
                           THEN Exchanged(hist, code) ELSE hist
                /\ Finish(p)
    /\ UNCHANGED <<now, config, redisStatus, redisStore, db>>

\* redis.del(key), then the access token read before is returned
ExchangeDel(p) ==
    /\ pc[p] = "ex_del"
    /\ redisStore' = {e \in redisStore : e.code # loc[p].raw}
    /\ hist' = Exchanged(hist, loc[p].raw)
    /\ Finish(p)
    /\ UNCHANGED <<now, config, redisStatus, oauthCodeFallback, db>>

\* ---------------------------------------------------------- specifications
\* the steps that carry a handler on from one await to the next
IssueSteps(p, drawn) ==
    \/ RegCreate(p)
    \/ SvConsume(p)
    \/ SvCreate(p, drawn)
    \/ SvMail(p)
    \/ TokSign(p)
    \/ TokSave(p)

LoginSteps(p) ==
    \/ LoginUnban(p)
    \/ LoginTouch(p)

OAuthSteps(p) ==
    \/ OAuthEmail(p)
    \/ OAuthCreate(p)

RefreshSteps(p) ==
    \/ RefreshSign(p)
    \/ RefreshTx(p)

ResetSteps(p) ==
    \/ ForgotConsume(p)
    \/ ForgotCreate(p)
    \/ ForgotMail(p)
    \/ ResetTx(p)

VerifySteps(p) ==
    \/ VerifyExhausted(p)
    \/ VerifyIncrement(p)
    \/ VerifyLast(p)
    \/ VerifyTx(p)

Init == InitWith({DefaultExpiresIn}, {{}})

InitAnyTtl == InitWith(ExpiresInValues, {{}})

InitWatching == InitWith({DefaultExpiresIn}, {{w} : w \in RefreshJwts})

\* Sessions, one request at a time: a handler runs to its end before the
\* next request begins; the clock, the sweep and a ban fall anywhere
SeqNext ==
    \/ Tick
    \/ \E e \in UserIds, agreed \in BOOLEAN : Register("p1", e, "pw1", agreed)
    \/ \E e \in UserIds, pw \in Passwords : Login("p1", e, pw)
    \/ \E u \in UserIds, t \in hist.rts : Refresh("p1", u, t)
    \/ \E t \in hist.rts : Logout("p1", t)
    \/ \E u \in UserIds, a \in BanActions : banUser(u, a)
    \/ Sweep("p1")
    \/ IssueSteps("p1", {"c1"})
    \/ LoginSteps("p1")
    \/ RefreshSteps("p1")
    \/ LogoutTx("p1")
    \/ SweepBlacklist("p1")

Spec == InitWatching /\ [][SeqNext]_vars


\* The enforcer: requests carrying an access token, against bans, the
\* sweep and the clock, for every configured access-token lifetime
EnforcerNext ==
    \/ Tick
    \/ \E e \in UserIds, agreed \in BOOLEAN : Register("p1", e, "pw1", agreed)
    \/ \E e \in UserIds, pw \in Passwords : Login("p1", e, pw)
    \/ \E u \in UserIds, t \in hist.rts : Refresh("p1", u, t)
    \/ \E t \in hist.rts : Logout("p1", t)
    \/ \E u \in UserIds, a \in BanActions : banUser(u, a)
    \/ \E t \in AccessJwts : Validate("p1", t)
    \/ Sweep("p1")
    \/ IssueSteps("p1", {"c1"})
    \/ LoginSteps("p1")
    \/ RefreshSteps("p1")
    \/ LogoutTx("p1")
    \/ ValidateUser("p1")
    \/ SweepBlacklist("p1")

SpecEnforcer == InitAnyTtl /\ [][EnforcerNext]_vars

\* Email verification: two clients of one account registering, verifying
\* and asking for new codes, their steps interleaved, all within the
\* lifetime of the codes
VerifyNext ==
    \/ \E e \in UserIds, agreed \in BOOLEAN : Register("p1", e, "pw1", agreed)
    \/ \E p \in Procs :
         \/ \E u \in UserIds : Resend(p, u)
         \/ \E u \in UserIds, code \in Codes \cup {Malformed} : verifyEmail(p, u, code)
         \/ IssueSteps(p, Codes)
         \/ VerifySteps(p)
         \/ Crash(p)

SpecVerify == Init /\ [][VerifyNext]_vars

\* the same, observing the calls made once the account is verified
InitReverify ==
    InitState({DefaultExpiresIn}, {"m"}, {"ready"}, {Observing({"reverify"})})

SpecReverify == InitReverify /\ [][VerifyNext]_vars

\* The checks of Rotate: any refresh JWT presented under any asserted
\* identity, against sessions that are rotated, logged out, expired, swept
\* or deleted by a ban
AssertedIds == UserIds \cup {"u2"}

InitChecks == InitState({DefaultExpiresIn}, {"m"}, {"ready"}, {Observing({"rotate"})})

ChecksNext ==
    \/ Tick
    \/ \E e \in UserIds, agreed \in BOOLEAN : Register("p1", e, "pw1", agreed)
    \/ \E e \in UserIds, pw \in Passwords : Login("p1", e, pw)
    \/ \E u \in AssertedIds, t \in RefreshJwts : Refresh("p1", u, t)
    \/ \E t \in hist.rts : Logout("p1", t)
    \/ \E u \in UserIds, a \in BanActions : banUser(u, a)
    \/ Sweep("p1")
    \/ IssueSteps("p1", {"c1"})
    \/ LoginSteps("p1")
    \/ RefreshSteps("p1")
    \/ LogoutTx("p1")
    \/ SweepBlacklist("p1")

SpecChecks == InitChecks /\ [][ChecksNext]_vars

\* Password reset, one request at a time, with logins, rotations, the
\* sweep and the clock in between
ResetNext ==
    \/ Tick
    \/ \E e \in UserIds, agreed \in BOOLEAN : Register("p1", e, "pw1", agreed)
    \/ \E e \in UserIds, pw \in Passwords : Login("p1", e, pw)
    \/ \E u \in UserIds, t \in hist.rts : Refresh("p1", u, t)
    \/ \E e \in UserIds : forgotPassword("p1", e)
    \/ \E t \in 1..MaxResetTokens : resetPassword("p1", t, "pw2")
    \/ Sweep("p1")
    \/ IssueSteps("p1", {"c1"})
    \/ LoginTouch("p1")
    \/ RefreshSteps("p1")
    \/ ResetSteps("p1")
    \/ SweepBlacklist("p1")

SpecReset == Init /\ [][ResetNext]_vars

\* Two clients of one account rotating and logging out concurrently
RotateNext ==
    \/ Tick
    \/ \E e \in UserIds, agreed \in BOOLEAN : Register("p1", e, "pw1", agreed)
    \/ IssueSteps("p1", {"c1"})
    \/ \E p \in Procs :
         \/ \E u \in UserIds, t \in hist.rts : Refresh(p, u, t)
         \/ \E t \in hist.rts : Logout(p, t)
         \/ RefreshSteps(p)
         \/ LogoutTx(p)

SpecRotate == InitWatching /\ [][RotateNext]_vars

\* A ban committing while logins and rotations of the account are in flight
BanNext ==
    \/ Tick
    \/ \E e \in UserIds, agreed \in BOOLEAN : Register("p1", e, "pw1", agreed)
    \/ \E u \in UserIds, a \in BanActions : banUser(u, a)
    \/ \E p \in Procs :
         \/ \E e \in UserIds, pw \in Passwords : Login(p, e, pw)
         \/ \E g \in ProviderIds, e \in UserIds : OAuthLogin(p, g, e)
         \/ \E u \in UserIds, t \in hist.rts : Refresh(p, u, t)
         \/ IssueSteps(p, {"c1"})
         \/ LoginSteps(p)
         \/ OAuthSteps(p)
         \/ RefreshSteps(p)

SpecBan == Init /\ [][BanNext]_vars

\* Two clients completing a password reset and rotating concurrently
ResetRaceNext ==
    \/ Tick
    \/ \E e \in UserIds, agreed \in BOOLEAN : Register("p1", e, "pw1", agreed)
    \/ IssueSteps("p1", {"c1"})
    \/ \E e \in UserIds : forgotPassword("p1", e)
    \/ \E p \in Procs :
         \/ \E t \in 1..MaxResetTokens : resetPassword(p, t, "pw2")
         \/ \E u \in UserIds, t \in hist.rts : Refresh(p, u, t)
         \/ ResetSteps(p)
         \/ RefreshSteps(p)

SpecResetRace == Init /\ [][ResetRaceNext]_vars

\* Revocation: logouts, password changes, password resets or bans (one kind
\* per run), one request at a time, followed by requests that carry the
\* access tokens handed out before, for every configured access-token
\* lifetime
RevocationOps == {"logout", "change", "reset", "ban"}

InitRevoking ==
    InitState(ExpiresInValues, ExpiresInUnits, {"ready"},
              {Observing({"revocation", op}) : op \in RevocationOps})

RevokeNext ==
    \/ Tick
    \/ \E e \in UserIds, agreed \in BOOLEAN : Register("p1", e, "pw1", agreed)
    \/ \E e \in UserIds, pw \in Passwords : Login("p1", e, pw)
    \/ /\ "logout" \in hist.obs
       /\ \/ \E t \in hist.rts : Logout("p1", t)
          \/ \E t \in AccessJwts : blacklistFromAccessToken("p1", t)
    \/ /\ "change" \in hist.obs
       /\ \E u \in UserIds, pw \in Passwords : changePassword("p1", u, pw, "pw2")
    \/ /\ "reset" \in hist.obs
       /\ \/ \E e \in UserIds : forgotPassword("p1", e)
          \/ \E t \in 1..MaxResetTokens : resetPassword("p1", t, "pw2")
    \/ /\ "ban" \in hist.obs
       /\ \E u \in UserIds, a \in BanActions : banUser(u, a)
    \/ \E t \in AccessJwts : Validate("p1", t)
    \/ IssueSteps("p1", {"c1"})
    \/ LoginSteps("p1")
    \/ LogoutTx("p1")
    \/ ChangePasswordTx("p1")
    \/ ResetSteps("p1")
    \/ ValidateUser("p1")

SpecRevoke == InitRevoking /\ [][RevokeNext]_vars

\* The periodic sweep run by two instances, over sessions, revocation
\* entries, verification codes and password reset tokens that expire
InitSweep == InitState({DefaultExpiresIn}, {"m"}, {"ready"}, {Observing({"sweep"})})

SweepNext ==
    \/ Tick
    \/ \E e \in UserIds, agreed \in BOOLEAN : Register("p1", e, "pw1", agreed)
    \/ \E t \in hist.rts : Logout("p1", t)
    \/ \E e \in UserIds : forgotPassword("p1", e)
    \/ IssueSteps("p1", {"c1"})
    \/ LogoutTx("p1")
    \/ ForgotConsume("p1")
    \/ ForgotCreate("p1")
    \/ ForgotMail("p1")
    \/ \E p \in Procs :
         \/ Sweep(p)
         \/ SweepBlacklist(p)

SpecSweep == InitSweep /\ [][SweepNext]_vars

\* Two sessions of one account, a Logout of one of them, and requests that
\* carry the access tokens of the other
InitFrame == InitState({DefaultExpiresIn}, {"m"}, {"ready"}, {Observing({"frame"})})

FrameNext ==
    \/ Tick
    \/ \E e \in UserIds, agreed \in BOOLEAN : Register("p1", e, "pw1", agreed)
    \/ \E e \in UserIds, pw \in Passwords : Login("p1", e, pw)
    \/ \E t \in hist.rts : Logout("p1", t)
    \/ \E t \in AccessJwts : Validate("p1", t)
    \/ IssueSteps("p1", {"c1"})
    \/ LoginTouch("p1")
    \/ LogoutTx("p1")
    \/ ValidateUser("p1")

SpecFrame == InitFrame /\ [][FrameNext]_vars

\* Logouts and password resets followed by logins, and requests that carry
\* the access tokens of those logins; no ban
InitAfter == InitState({DefaultExpiresIn}, {"m"}, {"ready"}, {Observing({"after"})})

AfterNext ==
    \/ Tick
    \/ \E e \in UserIds, agreed \in BOOLEAN : Register("p1", e, "pw1", agreed)
    \/ \E e \in UserIds, pw \in Passwords : Login("p1", e, pw)
    \/ \E t \in hist.rts : Logout("p1", t)
    \/ \E e \in UserIds : forgotPassword("p1", e)
    \/ \E t \in 1..MaxResetTokens : resetPassword("p1", t, "pw2")
    \/ \E t \in AccessJwts : Validate("p1", t)
    \/ IssueSteps("p1", {"c1"})
    \/ LoginTouch("p1")
    \/ LogoutTx("p1")
    \/ ResetSteps("p1")
    \/ ValidateUser("p1")

SpecAfter == InitAfter /\ [][AfterNext]_vars

\* Password reset requests for an e-mail without an account, for an OAuth
\* account and for a password account
InitForgot == InitState({DefaultExpiresIn}, {"m"}, {"ready"}, {Observing({"forgot"})})

ForgotNext ==
    \/ Tick
    \/ \E e \in UserIds, agreed \in BOOLEAN : Register("p1", e, "pw1", agreed)
    \/ \E g \in ProviderIds, e \in UserIds : OAuthLogin("p1", g, e)
    \/ IssueSteps("p1", {"c1"})
    \/ OAuthSteps("p1")
    \/ LoginTouch("p1")
    \/ \E p \in Procs :
         \/ \E e \in UserIds : forgotPassword(p, e)
         \/ ForgotConsume(p)
         \/ ForgotCreate(p)
         \/ ForgotMail(p)

SpecForgot == InitForgot /\ [][ForgotNext]_vars

\* Registration, with a password login of the new account by a second
\* client in between
InitRegister == InitState({DefaultExpiresIn}, {"m"}, {"ready"}, {Observing({"register"})})

RegisterNext ==
    \/ Tick
    \/ \E e \in UserIds, agreed \in BOOLEAN : Register("p1", e, "pw1", agreed)
    \/ \E e \in UserIds, pw \in Passwords : Login("p2", e, pw)
    \/ LoginSteps("p2")
    \/ \E u \in UserIds, a \in BanActions : banUser(u, a)
    \/ \E p \in Procs : IssueSteps(p, {"c1"})

SpecRegister == InitRegister /\ [][RegisterNext]_vars

\* Authentication: two clients logging in with passwords and with OAuth
\* identities, for e-mails with and without an account, and a ban, all
\* within one second
InitAuth == InitState({DefaultExpiresIn}, {"m"}, {"ready"}, {Observing({"auth"})})

AuthNext ==
    \/ \E e \in UserIds, agreed \in BOOLEAN : Register("p1", e, "pw1", agreed)
    \/ \E u \in UserIds, a \in BanActions : banUser(u, a)
    \/ \E p \in Procs :
         \/ \E e \in UserIds, pw \in {"pw1", "dummy"} : Login(p, e, pw)
         \/ \E g \in OAuthIdentities, e \in UserIds : OAuthLogin(p, g, e)
         \/ IssueSteps(p, {"c1"})
         \/ LoginTouch(p)
         \/ OAuthSteps(p)

SpecAuth == InitAuth /\ [][AuthNext]_vars

\* OAuth exchange codes: an OAuth login, codes generated for its access
\* token, two clients redeeming them concurrently, Redis connected or not
InitExchange == InitState({DefaultExpiresIn}, {"m"}, {"ready", "reconnecting"}, {InitHist({})})

ExchangeNext ==
    \/ Tick
    \/ RedisStatusChange
    \/ \E g \in ProviderIds, e \in UserIds : OAuthLogin("p1", g, e)
    \/ OAuthSteps("p1")
    \/ LoginTouch("p1")
    \/ TokSign("p1")
    \/ TokSave("p1")
    \/ \E t \in AccessJwts : generateOAuthCode("p1", t)
    \/ \E p \in Procs :
         \/ \E c \in 1..MaxOAuthCodes : exchangeOAuthCode(p, c)
         \/ ExchangeDel(p)

SpecExchange == InitExchange /\ [][ExchangeNext]_vars

\* ------------------------------------------------------------------ claims
\* the first call that presented tok found its session active and its owner
\* as asserted
FirstOnActive(tok) ==
    /\ Len(hist.rot[tok]) >= 1
    /\ hist.rot[tok][1].act
    /\ hist.rot[tok][1].own

\* C1: of two Rotate calls made one after the other with the same raw
\* refresh token, the first of which finds the session active, the first
\* succeeds and the second fails with RevokedError, whatever runs in between
C1_RotateTwiceOnceOk ==
    \A tok \in hist.watch :
        FirstOnActive(tok) =>
            /\ hist.rot[tok][1].r = "ok"
            /\ Len(hist.rot[tok]) >= 2 => hist.rot[tok][2].r = "Revoked"

\* C10: a Rotate presenting the refresh token that register or a login
\* returned succeeds however soon it is called and returns another token;
\* afterwards Rotate fails with the old token and succeeds with the new one
C10_RotateAfterIssue ==
    \A tok \in hist.watch \cap hist.logins :
        FirstOnActive(tok) =>
            /\ hist.rot[tok][1].r = "ok"
            /\ hist.next[tok] # tok
            /\ Len(hist.rot[tok]) >= 2 => hist.rot[tok][2].r # "ok"
            /\ FirstOnActive(hist.next[tok]) => hist.rot[hist.next[tok]][1].r = "ok"


\* C3: once a ban has committed, a request that begins afterwards with an
\* access token issued before the ban is rejected by the enforcer for as
\* long as the ban is in force, its signature being valid and its expiry
\* not reached
C3_BannedRejected == \A e \in hist.enf : e.res = "reject"

\* such a request, past the expiry of the ban's blacklist entry, rejected by
\* the ban check alone
C3_Witness == [res |-> "reject", why |-> "banned"] \in hist.enf


\* C5 as stated: after 5 VerifyCode calls with a wrong well-formed code, a
\* further VerifyCode call for the account, with the correct code or not,
\* fails with TooManyAttempts
C5_SixthTooManyAttempts == \A e \in hist.ver : e.res = "TooManyAttempts"

\* C5, its last part alone: such a further call does not verify the account
C5_SixthNeverVerifies == \A e \in hist.ver : e.res # "Verified"


\* C2: of the Rotate calls that present one raw refresh token, concurrent
\* ones included, at most one succeeds
C2_AtMostOneRotate ==
    \A tok \in hist.watch :
        Cardinality({i \in DOMAIN hist.rot[tok] : hist.rot[tok][i].r = "ok"}) <= 1

\* C4: once a ban has committed, no session issued by a password login, an
\* OAuth login or a Rotate that began before the ban is active
C4_NoSessionSurvivesBan ==
    \A r \in refreshTokens :
        (r.gOp \in {"login", "oauth", "refresh"} /\ r.gBan < hist.banSeq[r.userId])
            => ~Active(r, now)

\* C6: the first CompleteReset with the emailed token, unexpired and not
\* superseded, succeeds; every later one with that token fails with
\* AlreadyUsed; and no Rotate presenting the raw refresh token of a session
\* that was active when the reset committed succeeds
C6_ResetOnceSessionsEnd ==
    /\ \A raw \in DOMAIN hist.resetLog :
          LET log == hist.resetLog[raw]
          IN  /\ (Len(log) >= 1 /\ log[1].fresh) => log[1].r = "ok"
              /\ \A i \in DOMAIN log :
                    (i >= 2 /\ log[1].r = "ok") => log[i].r = "AlreadyUsed"
    /\ "ok" \notin hist.c6

\* C7: after a CompleteReset has committed, no session issued before it, and
\* none derived from such a session by a Rotate, is active
C7_NoSessionSurvivesReset ==
    \A r \in refreshTokens :
        r.gEpoch < hist.resetSeq[r.userId] => ~Active(r, now)

\* C8: the password is set at most once from one raw reset token
C8_ResetTokenSingleUse ==
    \A raw \in DOMAIN hist.pwSets : hist.pwSets[raw] <= 1

\* C9: of a Rotate and a Logout on one session, the one that commits second
\* writes nothing: neither commits on a session the other has revoked
C9_SecondCommitterNoWrite ==
    \A s \in hist.stale : {s.first, s.second} # {"rotate", "logout"}

\* C11: after a logout, a password change, a password reset or a ban has
\* committed, every request that carries an access token of the account
\* handed out before it is rejected by the enforcer until the token expires,
\* for every configured access-token lifetime
C11_RevokedUntilExpiry == \A e \in hist.c11 : e.res = "reject"

\* C12: of the RedeemExchangeCode calls that present one exchange code,
\* concurrent ones included, with Redis or with the in-memory map, at most
\* one returns the access token
C12_ExchangeCodeOneTime ==
    \A c \in DOMAIN hist.exchanged : hist.exchanged[c] <= 1

\* C14: Authenticate returns the same InvalidCredentials error for an e-mail
\* without an account and for an account with another password, and in both
\* cases the call ends there and writes nothing to the database
C14_SameErrorNoWrite ==
    /\ [](\A e \in hist.auth :
            (e.op = "login" /\ e.case \in {"noAccount", "wrongPassword"})
                => e.res = "InvalidCredentials")
    /\ [][\A e \in hist'.auth \ hist.auth :
            (e.op = "login" /\ e.case \in {"noAccount", "wrongPassword"})
                => UNCHANGED <<db, pc, loc>>]_vars

\* both cases have happened, on an account and beside it
C14_Witness ==
    /\ [op |-> "login", case |-> "noAccount",
        res |-> "InvalidCredentials"] \in hist.auth
    /\ [op |-> "login", case |-> "wrongPassword",
        res |-> "InvalidCredentials"] \in hist.auth

\* C20: Authenticate on an account without a password hash fails with the
\* 'use your original sign-in method' error, whatever password is presented
C20_NoPasswordDistinctError ==
    \A e \in hist.auth :
        (e.op = "login" /\ e.case = "noPassword") => e.res = "UseSocialLogin"

C15_OneLiveCode ==
    \A u \in UserIds :
        /\ Cardinality(LiveCodes(u, now)) <= 1
        /\ \A r \in emailTokens :
              (r.userId = u /\ r \notin NewestCode(u)) => r.verifiedAt # Null

\* C16: the hash comparisons ever made against one verification code, by
\* concurrent VerifyCode calls and across crashes, are at most max-attempts,
\* each of them after its own persisted increment of the attempt counter
C16_ComparisonsBounded ==
    \A r \in emailTokens :
        /\ r.gCompared <= r.attempts
        /\ r.gCompared <= r.maxAttempts

\* C17: when the increment of a VerifyCode call has brought the attempt
\* counter to max-attempts, the call consumes the code and fails with
\* TooManyAttempts; the comparison decides only below max-attempts
C17_BudgetBeforeComparison ==
    [][\A p \in Procs :
          (pc[p] = "ve_increment" /\ pc'[p] # pc[p] /\ emailTokens' # emailTokens) =>
              LET r == CHOOSE x \in emailTokens' : x.id = loc[p].row.id
              IN  IF r.attempts >= r.maxAttempts
                  THEN pc'[p] = "ve_last"
                  ELSE pc'[p] \in {"idle", "ve_tx"}]_vars

\* C18: RequestReset returns success for an e-mail without an account, for
\* an externally-authenticated account and for a password account, whether
\* the e-mail collaborator delivers or fails
C18_ResetRequestAlwaysSucceeds == \A e \in hist.forgot : e.res = "success"

\* C19: a Register call with accepted terms and an unused e-mail, which
\* creates the unverified account, returns a session whether the
\* verification e-mail hand-off succeeded or failed
C19_RegisterSucceeds == \A e \in hist.reg : e.res = "ok"

\* C21: a Rotate whose transaction cannot commit, because the session row
\* was deleted meanwhile or because the new session's hash is already
\* stored, answers the caller with InvalidToken (401), whatever NODE_ENV is
C21_ConflictIsInvalidToken ==
    \A tok \in hist.watch : \A i \in DOMAIN hist.rot[tok] :
        hist.rot[tok][i].r \in {"NotFound", "Conflict"} =>
            \A isProduction \in BOOLEAN :
                RefreshResponse(hist.rot[tok][i].r, isProduction).status = "UNAUTHORIZED"

\* C22: when a run of the sweep completes, none of the sessions, revocation
\* entries, verification codes and password reset tokens that were expired
\* when it began is still stored, with one instance or two
C22_SweepRemovesExpired == hist.left = {}

\* C23: a well-formed VerifyCode call begun on a verified account returns
\* success, in every state the account can be in after its verification
C23_ReverifySucceeds ==
    \A e \in hist.rever : e.res \in {"Verified", "AlreadyVerified"}

\* the outcomes of a Rotate that show the session of the token presented
\* to have left ACTIVE: rotated by this call, revoked, expired, or deleted
\* by a ban or a sweep
LeftActive == {"ok", "Revoked", "Expired", "InvalidToken", "NotFound"}

\* C24: once a Rotate has shown the session of a raw refresh token handed
\* out to have left ACTIVE, no later Rotate presenting that token succeeds,
\* whatever logins, rotations, logouts, bans and sweeps run in between
C24_TerminalStates ==
    \A tok \in hist.watch :
        (Len(hist.rot[tok]) >= 2 /\ hist.rot[tok][1].r \in LeftActive)
            => hist.rot[tok][2].r # "ok"

\* the error the precedence of C25 gives for what a Rotate met
Precedence(e) ==
    IF ~e.found THEN "InvalidToken"
    ELSE IF e.revoked THEN "Revoked"
    ELSE IF e.expired THEN "Expired"
    ELSE IF ~e.owner THEN "OwnerMismatch"
    ELSE "ok"

\* C25: the checks of a Rotate fail with InvalidToken when no session has
\* the token's hash, else with RevokedError when it is revoked, else with
\* ExpiredError when it is past expiry, else with OwnerMismatch when the
\* asserted identity is not the owner; and a Rotate step that fails, in the
\* checks or in the transaction, changes no session record and hands out
\* no token
C25_RotateFailures ==
    /\ [](hist.rotLast.stage = "check" => hist.rotLast.res = Precedence(hist.rotLast))
    /\ [][(hist'.rotFlip # hist.rotFlip /\ hist'.rotLast.res # "ok") =>
            /\ UNCHANGED <<refreshTokens, users, tokenBlacklist>>
            /\ hist'.rts = hist.rts
            /\ hist'.at = hist.at
            /\ \A p \in Procs : pc'[p] # pc[p] => pc'[p] = "idle"]_vars

\* a Rotate presented the token of a session both revoked and past its
\* expiry, and failed with RevokedError
C25_Witness ==
    /\ hist.rotLast.stage = "check"
    /\ hist.rotLast.revoked /\ hist.rotLast.expired
    /\ hist.rotLast.res = "Revoked"

\* C26: the in-memory map of exchange codes never holds more than
\* MAX_OAUTH_CODES entries, and when a generateOAuthCode evicts entries from
\* the full map, every entry it evicts expires no later than every entry
\* it keeps
C26_FallbackBounded ==
    /\ [](Cardinality(oauthCodeFallback) <= MAX_OAUTH_CODES)
    /\ [][\A c \in hist'.evicted \ hist.evicted :
            \A e \in oauthCodeFallback, k \in oauthCodeFallback \cap oauthCodeFallback' :
                e.code = c => e.expiresAt <= k.expiresAt]_vars

\* the map has been full and an unexpired entry was evicted from it
C26_Witness ==
    /\ hist.evicted # {}
    /\ Cardinality(oauthCodeFallback) = MAX_OAUTH_CODES

\* the session was created by a request that began after the account's
\* last ban had committed, at a time when that ban was active (the ban has
\* not been lifted since: isBanned is still set)
IssuedUnderBan(r) ==
    /\ r.gBan > 0
    /\ r.gBan = hist.banSeq[r.userId]
    /\ users[r.userId].isBanned
    /\ \/ users[r.userId].bannedUntil = Null
       \/ r.expiresAt - REFRESH_TOKEN_EXPIRY_DAYS < users[r.userId].bannedUntil

\* C27: while an account's ban is active, no password login, OAuth login or
\* Rotate that began after the ban committed creates a session of the
\* account
C27_NoSessionUnderBan ==
    \A r \in refreshTokens :
        r.gOp \in {"login", "oauth", "refresh"} => ~IssuedUnderBan(r)

\* C28: when an account has two active sessions and a Logout ends one of
\* them, the access tokens issued with the other, still active session
\* are accepted by the enforcer
C28_LogoutOneSession == "reject" \notin hist.frame

\* C29: an access token first handed out after every revocation entry of
\* its account had been committed, by a login that follows a logout or a
\* password reset however closely, is accepted by the enforcer; the
\* account is never banned
C29_IssuedAfterAccepted == "reject" \notin hist.after

\* the outcome of a Rotate of the caller userId with raw token tok, were it
\* to run from its read to its transaction in the present state
RotateNow(userId, tok) ==
    LET rows == FindRefresh(hashToken(tok))
        c == RefreshCheck(rows, userId, now)
    IN  IF c # "ok" THEN c
        ELSE IF FindRefresh(hashToken(SignRefresh(userId, now))) # {}
             THEN "Conflict"
             ELSE "ok"

\* a step of the sweep: one of its two deleteMany calls
SweepStep ==
    \E p \in Procs :
        \/ pc[p] = "idle" /\ pc'[p] = "sw_blacklist"
        \/ pc[p] = "sw_blacklist" /\ pc'[p] = "idle"

\* C30: a step of the sweep deletes no active session and no revocation
\* entry whose expiry is in the future, and after it no Rotate succeeds
\* that would have failed before it and no access token is accepted that
\* was rejected before it
C30_SweepChangesNoOutcome ==
    [][SweepStep =>
          /\ \A r \in refreshTokens \ refreshTokens' : ~Active(r, now)
          /\ \A b \in tokenBlacklist \ tokenBlacklist' : ~(b.expiresAt > now)
          /\ \A t \in AccessJwts : Blacklisted(t, now) => Blacklisted(t, now)'
          /\ \A u \in UserIds, tok \in hist.rts :
                RotateNow(u, tok)' = "ok" => RotateNow(u, tok) = "ok"]_vars

====
